---- MODULE Spec2Model ----
(***************************************************************************)
(* Model of the jaffle-shop benchmark harness (jaffle_shop_pipeline.py)    *)
(* and of its production variant (prod_jaffle_shop_pipeline.py).           *)
(*                                                                         *)
(* One process execution is a single thread walking through main (or       *)
(* run_pipeline): pc is its position.  The REST server, the wall clock,    *)
(* uuid4 and the failures of external calls are the environment and are    *)
(* nondeterministic.  The page loop of client.paginate lives in the dlt    *)
(* library; it is modelled from the paginator's configuration and the      *)
(* specification's description of it.                                      *)
(***************************************************************************)
EXTENDS Integers, Sequences, FiniteSets, TLC

\* ------------------------------------------------------------------ bounds
\* Records the server returns per full page.
PageSize == 2
\* Largest step of the wall clock during one external call.
MaxTick == 1
\* Number of distinct values str(uuid4())[:8] is drawn from.
NumUuids == 2
\* Number of process executions of the harness (SpecRepeated only).
MaxExecutions == 2

\* --------------------------------------------------------------- constants
ENDPOINTS == <<"customers", "orders", "products">>

WorkerVars == {"EXTRACT__WORKERS", "NORMALIZE__WORKERS", "LOAD__WORKERS"}

\* A paginator that does not stop at an empty page.
NaivePaginator_NoStop ==
    [base_page |-> 1, stop_after_empty_page |-> FALSE, maximum_page |-> 5]

\* PageNumberPaginator(...) as configured by each variant.
NaivePaginator ==
    [base_page |-> 1, stop_after_empty_page |-> TRUE, maximum_page |-> 5]

\* A paginator whose page limit is one too high.
OptimizedPaginator_Six ==
    [base_page |-> 1, stop_after_empty_page |-> TRUE, maximum_page |-> 6]

OptimizedPaginator ==
    [base_page |-> 1, stop_after_empty_page |-> TRUE, maximum_page |-> 5]

ProdPaginator ==
    [base_page |-> 1, stop_after_empty_page |-> TRUE, maximum_page |-> 5]

Paginator(v) ==
    CASE v = "naive" -> NaivePaginator
      [] v = "optimized" -> OptimizedPaginator
      [] OTHER -> ProdPaginator

\* The resources handed to pipeline.run, in list order.
Resources(v) == ENDPOINTS

Variants == {"naive", "optimized", "prod"}
Programs == {"benchmark", "prod"}

\* ------------------------------------------------------------- environment
\* The worker settings the process may be started with.
InitialEnvs ==
    { [w \in WorkerVars |-> "unset"],
      [w \in WorkerVars |-> "4"],
      [w \in WorkerVars |-> IF w = "EXTRACT__WORKERS" THEN "2" ELSE "unset"] }

\* The values str(uuid.uuid4())[:8] can take (8 hex digits, abstracted).
UuidPrefixes == 1..NumUuids

\* A collection on the server holds 0..MaxRecords records; more than
\* maximum_page full pages means no page within reach is empty.
MaxRecords == (NaivePaginator.maximum_page + 1) * PageSize + 1

Min(a, b) == IF a < b THEN a ELSE b

\* The server's answer to GET <endpoint>?page=p for a collection of `total`
\* records: the p-th slice of PageSize records, the empty array beyond the end.
ServerPage(endpoint, total, p) ==
    LET first == (p - 1) * PageSize + 1
        last == Min(p * PageSize, total)
    IN  IF p < 1 \/ first > total
        THEN << >>
        ELSE [i \in 1..(last - first + 1) |-> <<endpoint, first + i - 1>>]

\* ------------------------------------------------------------------- state
VARIABLES
    program,      \* which script the process runs
    exec,         \* number of this process execution
    pc,           \* position of the (single) thread
    cur,          \* the variant whose run function is executing
    env,          \* os.environ restricted to the worker settings
    env0,         \* the worker settings the process started with
    clock,        \* time.time(), relative to the start of the process
    timer,        \* per variant: start_time, end_time of wrapper, and the
                  \* instants at which create_* was entered and pipeline.run called
    pipeline,     \* << >> or <<the pipeline object of the current run>>
    constructed,  \* every pipeline constructed so far, in order
    status,       \* per variant: none, running, finished, failed
    ret,          \* per variant: << >> or <<load_info, execution_time>>
    improvement,  \* << >> or <<hundredths of a percent>>
    out,          \* the console
    exception,    \* the exception that ended the process, "" if none
    res,          \* the resource being extracted: its index, the paginator
                  \* state and what the generator has yielded
    total         \* records of the collection being paginated, -1 if none

vars == <<program, exec, pc, cur, env, env0, clock, timer, pipeline,
          constructed, status, ret, improvement, out, exception, res, total>>

NoTimer == [start_time |-> -1, create_at |-> -1, run_at |-> -1, end_time |-> -1]

\* No resource generator is active.
IdleRes ==
    [idx |-> 0, phase |-> "idle", page |-> 0, has_next |-> FALSE,
     requested |-> << >>, fetched |-> << >>, yielded |-> << >>]

Msg(m, v, t) == [msg |-> m, v |-> v, t |-> t]

ProcessStart(prog, e0, n) ==
    /\ program = prog
    /\ exec = n
    /\ pc = IF prog = "benchmark" THEN "main_151" ELSE "create"
    /\ cur = IF prog = "benchmark" THEN "naive" ELSE "prod"
    /\ env = e0
    /\ env0 = e0
    /\ clock = 0
    /\ timer = [v \in Variants |-> NoTimer]
    /\ pipeline = << >>
    /\ status = [v \in Variants |-> "none"]
    /\ ret = [v \in Variants |-> << >>]
    /\ improvement = << >>
    /\ out = << >>
    /\ exception = ""
    /\ res = IdleRes
    /\ total = -1

Init ==
    /\ \E prog \in Programs, e0 \in InitialEnvs : ProcessStart(prog, e0, 1)
    /\ constructed = << >>

\* ------------------------------------------------------- pure computations
\* The subtraction the wrong way round.
ExecutionTime_Swapped(start_time, end_time) == start_time - end_time

\* execution_time = end_time - start_time
ExecutionTime(start_time, end_time) == end_time - start_time

\* (naive_time - optimized_time) / naive_time * 100, rendered with two
\* decimals: the value in hundredths of a percent.  Defined for naive_time # 0;
\* Python raises ZeroDivisionError otherwise.
Improvement(naive_time, optimized_time) ==
    ((naive_time - optimized_time) * 10000) \div naive_time

\* pipeline_name / dataset_name: the variant's fixed prefix followed by the
\* 8 characters of the uuid; the production variant has fixed names.
PipelineName(v, u) ==
    IF v = "prod" THEN <<"jaffle_shop">> ELSE <<"jaffle_benchmark", u>>

DatasetName(v, u) ==
    CASE v = "naive" -> <<"jaffle_naive", u>>
      [] v = "optimized" -> <<"jaffle_optimized", u>>
      [] OTHER -> <<"jaffle_shop_data">>

NewPipeline(v, u) ==
    [variant |-> v, exec |-> exec,
     pipeline_name |-> PipelineName(v, u), dataset_name |-> DatasetName(v, u)]

LoadInfo(p) == [pipeline_name |-> p.pipeline_name, dataset_name |-> p.dataset_name]

\* Only one of the three settings is written.
OptimizedWorkerEnv_ExtractOnly(e) == [e EXCEPT !["EXTRACT__WORKERS"] = "2"]

\* os.environ[...] = '2' for the three worker settings.
OptimizedWorkerEnv(e) == [w \in WorkerVars |-> "2"]

\* What one pass of the generator's loop body yields for a page:
\* `for item in page: yield item` against `yield page`.
ItemResourceYield(page) == page

\* The page resource yielding the items of the page, as the item resource does.
PageResourceYield_Items(page) == page

PageResourceYield(page) == <<page>>

ResourceYield(v, page) ==
    IF v = "naive" THEN ItemResourceYield(page) ELSE PageResourceYield(page)

\* The paginator after the response to page p: whether the page is handed to
\* the loop, the next page number and whether there is a next page.  An empty
\* page ends the pagination when stop_after_empty_page is set; otherwise the
\* page number advances and pagination ends once maximum_page pages, counted
\* from base_page, have been fetched.
PaginatorUpdate(cfg, p, data) ==
    IF cfg.stop_after_empty_page /\ data = << >>
    THEN [deliver |-> FALSE, page |-> p, has_next |-> FALSE]
    ELSE [deliver |-> data # << >>, page |-> p + 1,
          has_next |-> p + 1 < cfg.base_page + cfg.maximum_page]

\* A wrapper that swallows the exception and carries on after the call.
Unwind_Swallowed == "wrapper_19"

\* Where control goes when the timed function raises: the wrapper has no
\* try/except and neither has main, so the exception leaves the process.
Unwind == "raised"

\* ----------------------------------------------------------------- actions
\* main: print("Running naive pipeline..."); run_naive_pipeline()
MainRunNaive ==
    /\ pc = "main_151"
    /\ out' = Append(out, Msg("Running naive pipeline...", "naive", 0))
    /\ cur' = "naive"
    /\ pc' = "wrapper_17"
    /\ UNCHANGED <<program, exec, env, env0, clock, timer, pipeline,
                   constructed, status, ret, improvement, exception, res, total>>

\* wrapper: start_time = time.time()
WrapperStart ==
    /\ pc = "wrapper_17"
    /\ timer' = [timer EXCEPT ![cur].start_time = clock]
    /\ pc' = "create"
    /\ UNCHANGED <<program, exec, cur, env, env0, clock, pipeline, constructed,
                   status, ret, improvement, out, exception, res, total>>

\* The part of a create function that all variants share: the client and the
\* resources are defined (nothing is fetched), the uuid is drawn, the pipeline
\* object is made.  Construction takes d ticks of the clock.
Construct(v, u, d) ==
    /\ timer' = [timer EXCEPT ![v].create_at = clock]
    /\ clock' = clock + d
    /\ pipeline' = <<NewPipeline(v, u)>>
    /\ constructed' = Append(constructed, NewPipeline(v, u))
    /\ pc' = "run"
    /\ UNCHANGED <<program, exec, cur, env0, status, ret, improvement, out,
                   exception, res, total>>

CreateNaivePipeline ==
    /\ pc = "create"
    /\ cur = "naive"
    /\ \E u \in UuidPrefixes, d \in 0..MaxTick : Construct("naive", u, d)
    /\ env' = env

CreateOptimizedPipeline ==
    /\ pc = "create"
    /\ cur = "optimized"
    /\ env' = OptimizedWorkerEnv(env)
    /\ \E u \in UuidPrefixes, d \in 0..MaxTick : Construct("optimized", u, d)

\* prod: jaffle_shop_pipeline()
JaffleShopPipeline ==
    /\ pc = "create"
    /\ cur = "prod"
    /\ \E d \in 0..MaxTick : Construct("prod", 0, d)
    /\ env' = env

\* dlt.pipeline(...) raises.  create_optimized_pipeline has set the worker
\* settings by then.
CreateRaises ==
    /\ pc = "create"
    /\ timer' = [timer EXCEPT ![cur].create_at = clock]
    /\ env' = IF cur = "optimized" THEN OptimizedWorkerEnv(env) ELSE env
    /\ status' = [status EXCEPT ![cur] = "failed"]
    /\ exception' = "PipelineError"
    /\ pc' = Unwind
    /\ UNCHANGED <<program, exec, cur, env0, clock, pipeline, constructed,
                   ret, improvement, out, res, total>>

\* pipeline.run(resources) is entered.
PipelineRunBegin ==
    /\ pc = "run"
    /\ timer' = [timer EXCEPT ![cur].run_at = clock]
    /\ status' = [status EXCEPT ![cur] = "running"]
    /\ res' = IdleRes
    /\ pc' = "extract"
    /\ UNCHANGED <<program, exec, cur, env, env0, clock, pipeline, constructed,
                   ret, improvement, out, exception, total>>

\* The runtime starts iterating the next resource: client.paginate(endpoint)
\* begins at base_page.  The collection's size is the server's.
ResourceStart ==
    /\ pc = "extract"
    /\ res.phase = "idle"
    /\ res.idx < Len(Resources(cur))
    /\ \E t \in 0..MaxRecords : total' = t
    /\ res' = [IdleRes EXCEPT !.idx = res.idx + 1, !.phase = "paging",
                              !.page = Paginator(cur).base_page,
                              !.has_next = TRUE]
    /\ UNCHANGED <<program, exec, pc, cur, env, env0, clock, timer, pipeline,
                   constructed, status, ret, improvement, out, exception>>

\* One pass of `for page in client.paginate(endpoint)`: the page is requested,
\* the paginator updated and the loop body run on the page.
FetchPage ==
    /\ pc = "extract"
    /\ res.phase = "paging"
    /\ res.has_next
    /\ LET p == res.page
           data == ServerPage(Resources(cur)[res.idx], total, p)
           upd == PaginatorUpdate(Paginator(cur), p, data)
       IN  res' = [res EXCEPT
                     !.requested = Append(@, p),
                     !.fetched = Append(@, data),
                     !.page = upd.page,
                     !.has_next = upd.has_next,
                     !.yielded = IF upd.deliver
                                 THEN @ \o ResourceYield(cur, data)
                                 ELSE @]
    /\ UNCHANGED <<program, exec, pc, cur, env, env0, clock, timer, pipeline,
                   constructed, status, ret, improvement, out, exception, total>>

\* The request for the page fails (transport or decoding error).
FetchRaises ==
    /\ pc = "extract"
    /\ res.phase = "paging"
    /\ res.has_next
    /\ res' = [res EXCEPT !.requested = Append(@, res.page)]
    /\ status' = [status EXCEPT ![cur] = "failed"]
    /\ exception' = "TransportError"
    /\ pc' = Unwind
    /\ UNCHANGED <<program, exec, cur, env, env0, clock, timer, pipeline,
                   constructed, ret, improvement, out, total>>

\* The generator of the current resource is exhausted.
ResourceDone ==
    /\ pc = "extract"
    /\ res.phase = "paging"
    /\ ~res.has_next
    /\ res' = [IdleRes EXCEPT !.idx = res.idx]
    /\ total' = -1
    /\ pc' = IF res.idx = Len(Resources(cur)) THEN "load" ELSE "extract"
    /\ UNCHANGED <<program, exec, cur, env, env0, clock, timer, pipeline,
                   constructed, status, ret, improvement, out, exception>>

\* pipeline.run returns load_info; the production entry point returns it.
PipelineRunEnd ==
    /\ pc = "load"
    /\ \E d \in 0..MaxTick : clock' = clock + d
    /\ status' = [status EXCEPT ![cur] = "finished"]
    /\ IF cur = "prod"
       THEN /\ ret' = [ret EXCEPT !["prod"] = <<LoadInfo(pipeline[1])>>]
            /\ pc' = "exit"
       ELSE /\ ret' = ret
            /\ pc' = "wrapper_19"
    /\ UNCHANGED <<program, exec, cur, env, env0, timer, pipeline, constructed,
                   improvement, out, exception, res, total>>

\* pipeline.run raises while normalizing or loading.
LoadRaises ==
    /\ pc = "load"
    /\ status' = [status EXCEPT ![cur] = "failed"]
    /\ exception' = "LoadError"
    /\ pc' = Unwind
    /\ UNCHANGED <<program, exec, cur, env, env0, clock, timer, pipeline,
                   constructed, ret, improvement, out, res, total>>

\* wrapper: end_time, execution_time, the completion message, the pair.
WrapperEnd ==
    /\ pc = "wrapper_19"
    /\ cur \in {"naive", "optimized"}
    /\ LET t == ExecutionTime(timer[cur].start_time, clock)
       IN  /\ timer' = [timer EXCEPT ![cur].end_time = clock]
           /\ out' = Append(out, Msg("completed", cur, t))
           /\ ret' = [ret EXCEPT ![cur] = <<LoadInfo(pipeline[1]), t>>]
    /\ pipeline' = << >>
    /\ pc' = IF cur = "naive" THEN "main_155" ELSE "main_159"
    /\ UNCHANGED <<program, exec, cur, env, env0, clock, constructed, status,
                   improvement, exception, res, total>>

\* main starting the optimized run while the naive run is still extracting.
MainRunOptimized_NoWait ==
    /\ \/ pc = "main_155"
       \/ pc = "extract" /\ cur = "naive" /\ res.phase = "idle"
    /\ out' = Append(out, Msg("Running optimized pipeline...", "optimized", 0))
    /\ cur' = "optimized"
    /\ pc' = "wrapper_17"
    /\ UNCHANGED <<program, exec, env, env0, clock, timer, pipeline,
                   constructed, status, ret, improvement, exception, res, total>>

\* main: print("Running optimized pipeline..."); run_optimized_pipeline()
MainRunOptimized ==
    /\ pc = "main_155"
    /\ out' = Append(out, Msg("Running optimized pipeline...", "optimized", 0))
    /\ cur' = "optimized"
    /\ pc' = "wrapper_17"
    /\ UNCHANGED <<program, exec, env, env0, clock, timer, pipeline,
                   constructed, status, ret, improvement, exception, res, total>>

\* main: improvement = (naive_time - optimized_time) / naive_time * 100
MainImprovement ==
    /\ pc = "main_159"
    /\ LET naive_time == ret["naive"][2]
           optimized_time == ret["optimized"][2]
       IN  IF naive_time = 0
           THEN /\ exception' = "ZeroDivisionError"
                /\ pc' = "raised"
                /\ improvement' = improvement
           ELSE /\ improvement' = <<Improvement(naive_time, optimized_time)>>
                /\ pc' = "main_162"
                /\ exception' = exception
    /\ UNCHANGED <<program, exec, cur, env, env0, clock, timer, pipeline,
                   constructed, status, ret, out, res, total>>

\* main: the results, the thread information and the optimization details.
MainPrintResults ==
    /\ pc = "main_162"
    /\ out' = out \o << Msg("PERFORMANCE RESULTS", "naive", ret["naive"][2]),
                        Msg("PERFORMANCE RESULTS", "optimized", ret["optimized"][2]),
                        Msg("Performance improvement", "optimized", improvement[1]),
                        Msg("THREAD INFORMATION", "", 0),
                        Msg("OPTIMIZATION DETAILS", "", 0) >>
    /\ pc' = "exit"
    /\ UNCHANGED <<program, exec, cur, env, env0, clock, timer, pipeline,
                   constructed, status, ret, improvement, exception, res, total>>

\* The script is started again, as a new process: what persists is what
\* earlier executions left at the destination.
Restart ==
    /\ pc \in {"exit", "raised"}
    /\ exec < MaxExecutions
    /\ \E e0 \in InitialEnvs :
         /\ env' = e0
         /\ env0' = e0
    /\ exec' = exec + 1
    /\ pc' = IF program = "benchmark" THEN "main_151" ELSE "create"
    /\ cur' = IF program = "benchmark" THEN "naive" ELSE "prod"
    /\ clock' = 0
    /\ timer' = [v \in Variants |-> NoTimer]
    /\ pipeline' = << >>
    /\ status' = [v \in Variants |-> "none"]
    /\ ret' = [v \in Variants |-> << >>]
    /\ improvement' = << >>
    /\ out' = << >>
    /\ exception' = ""
    /\ res' = IdleRes
    /\ total' = -1
    /\ UNCHANGED <<program, constructed>>

Next ==
    \/ MainRunNaive
    \/ WrapperStart
    \/ CreateNaivePipeline
    \/ CreateOptimizedPipeline
    \/ JaffleShopPipeline
    \/ CreateRaises
    \/ PipelineRunBegin
    \/ ResourceStart
    \/ FetchPage
    \/ FetchRaises
    \/ ResourceDone
    \/ PipelineRunEnd
    \/ LoadRaises
    \/ WrapperEnd
    \/ MainRunOptimized
    \/ MainImprovement
    \/ MainPrintResults

\* One execution of a script.
Spec == Init /\ [][Next]_vars

\* Repeated executions of a script.
SpecRepeated == Init /\ [][Next \/ Restart]_vars

\* ------------------------------------------------------------- properties
Timed == {"naive", "optimized"}

\* Number of non-empty pages of a collection of t records.
NumPages(t) == (t + PageSize - 1) \div PageSize

\* A resource's generator is exhausted and has not been discarded yet.
Exhausted == pc = "extract" /\ res.phase = "paging" /\ ~res.has_next

\* The endpoint of the resource being extracted.
Endpoint == Resources(cur)[res.idx]

RECURSIVE Flatten(_)
Flatten(pages) ==
    IF pages = << >> THEN << >> ELSE Head(pages) \o Flatten(Tail(pages))

RECURSIVE SumLen(_)
SumLen(pages) ==
    IF pages = << >> THEN 0 ELSE Len(Head(pages)) + SumLen(Tail(pages))

\* Pages 1..n of the collection being paginated.
CollectionPages(n) == [p \in 1..n |-> ServerPage(Endpoint, total, p)]

ConstructedHere(v) ==
    {i \in 1..Len(constructed) :
        constructed[i].variant = v /\ constructed[i].exec = exec}

Printed(m, v) == \E i \in 1..Len(out) : out[i].msg = m /\ out[i].v = v

\* C1: when a collection has N <= 5 non-empty pages followed by an empty page,
\* the exhausted page resource of the optimized pipeline has yielded exactly
\* the N pages, in page order, and the exhausted item resource of the naive
\* pipeline has yielded exactly the records of page 1, page 2, ..., page N in
\* their order, as many as the per-page record counts add up to.
C1_YieldsAllPagesInOrder ==
    (Exhausted /\ NumPages(total) <= 5) =>
        LET N == NumPages(total)
        IN  /\ cur = "optimized" =>
                 /\ Len(res.yielded) = N
                 /\ res.yielded = CollectionPages(N)
            /\ cur = "naive" =>
                 /\ Len(res.yielded) = SumLen(CollectionPages(N))
                 /\ res.yielded = Flatten(CollectionPages(N))

C1_Witness ==
    /\ Exhausted
    /\ cur = "optimized"
    /\ total = 2 * PageSize + 1
    /\ Len(res.yielded) = 3
    /\ Len(res.yielded[1]) = PageSize
    /\ Len(res.yielded[3]) = 1

\* C2: an empty page ends the pagination of a resource: an empty page is only
\* ever the last page fetched and no further page is requested after it, so
\* with N non-empty pages the pages requested are 1, 2, ... and never one
\* beyond N + 1, and nothing but the N pages is yielded.
C2_StopsAfterEmptyPage ==
    (res.phase = "paging") =>
        LET N == NumPages(total)
        IN  /\ \A i \in 1..Len(res.fetched) :
                 res.fetched[i] = << >> =>
                     /\ i = Len(res.fetched)
                     /\ ~res.has_next
                     /\ Len(res.requested) = i
            /\ \A i \in 1..Len(res.requested) :
                 /\ res.requested[i] = i
                 /\ res.requested[i] <= N + 1
            /\ Len(res.yielded) <=
                  IF cur = "naive" THEN SumLen(CollectionPages(N)) ELSE N

C2_Witness ==
    /\ Exhausted
    /\ NumPages(total) = 2
    /\ res.requested = <<1, 2, 3>>
    /\ res.fetched[3] = << >>
    /\ res.fetched[2] # << >>

\* C3: at most 5 pages are ever requested for a resource, and when no page of
\* the collection is empty the pagination does not stop before page 5 and
\* stops after it: pages 1 to 5 are requested, fetched and yielded.
C3_StopsAtMaximumPage ==
    (res.phase = "paging") =>
        /\ Len(res.requested) <= 5
        /\ NumPages(total) > 5 =>
              /\ Len(res.fetched) < 5 => res.has_next
              /\ Len(res.fetched) = 5 =>
                    /\ ~res.has_next
                    /\ res.requested = <<1, 2, 3, 4, 5>>
                    /\ res.fetched = CollectionPages(5)
                    /\ res.yielded = IF cur = "naive"
                                     THEN Flatten(CollectionPages(5))
                                     ELSE CollectionPages(5)

C3_Witness ==
    /\ Exhausted
    /\ NumPages(total) > 5
    /\ Len(res.fetched) = 5
    /\ res.fetched[5] # << >>

\* C4: the two runs of main never overlap: nothing of the optimized run (its
\* timer, its pipeline, its run) exists before the naive run has finished and
\* returned its pair, and the improvement is computed and the summary printed
\* only after the optimized run has finished and returned its pair.
C4_RunsAreSequential ==
    /\ ~(status["naive"] = "running" /\ status["optimized"] = "running")
    /\ (\/ status["optimized"] # "none"
        \/ timer["optimized"] # NoTimer
        \/ ConstructedHere("optimized") # {}
        \/ cur = "optimized") =>
           /\ status["naive"] = "finished"
           /\ ret["naive"] # << >>
    /\ (\/ improvement # << >>
        \/ Printed("PERFORMANCE RESULTS", "naive")
        \/ pc \in {"main_159", "main_162"}) =>
           /\ status["optimized"] = "finished"
           /\ ret["optimized"] # << >>

C4_Witness ==
    /\ program = "benchmark"
    /\ pc = "exit"
    /\ improvement # << >>
    /\ Len(constructed) = 2

\* C5: when the naive run's elapsed time is 0, main does not end with a
\* ZeroDivisionError: it ends with the results printed.
C5_NoDivisionByZero ==
    (/\ pc \in {"raised", "exit"}
     /\ ret["naive"] # << >>
     /\ ret["optimized"] # << >>
     /\ ret["naive"][2] = 0) =>
        /\ exception # "ZeroDivisionError"
        /\ pc = "exit"
        /\ Printed("PERFORMANCE RESULTS", "naive")

\* C6: a run that fails ends the process with its exception: the failed run
\* returns no pair and prints no completion message, it is not attempted
\* again, no improvement is computed and no summary printed, and after a
\* failed naive run nothing of the optimized run is started.
C6_FailurePropagates ==
    \A v \in Timed :
        status[v] = "failed" =>
            /\ pc = "raised"
            /\ exception \in {"PipelineError", "TransportError", "LoadError"}
            /\ ret[v] = << >>
            /\ ~Printed("completed", v)
            /\ timer[v].end_time = -1
            /\ Cardinality(ConstructedHere(v)) <= 1
            /\ improvement = << >>
            /\ ~Printed("PERFORMANCE RESULTS", "naive")
            /\ v = "naive" =>
                  /\ status["optimized"] = "none"
                  /\ timer["optimized"] = NoTimer
                  /\ ConstructedHere("optimized") = {}

C6_Witness ==
    /\ status["optimized"] = "failed"
    /\ exception = "TransportError"
    /\ ret["naive"] # << >>
    /\ Len(res.fetched) = 1

\* C7 as stated: the reported seconds of a timed run are those between the
\* call of pipeline.run, made once the configuration is constructed, and its
\* return.
C7_TimerCoversRunOnly ==
    \A v \in Timed :
        ret[v] # << >> =>
            /\ timer[v].start_time >= timer[v].run_at
            /\ ret[v][2] = timer[v].end_time - timer[v].run_at

\* C7 as amended: the timer starts before the configuration is constructed
\* and stops when pipeline.run has returned, so the reported seconds are the
\* construction time plus the time of pipeline.run.
C7_TimerCoversConstructionAndRun ==
    \A v \in Timed :
        ret[v] # << >> =>
            /\ timer[v].start_time <= timer[v].create_at
            /\ timer[v].create_at <= timer[v].run_at
            /\ timer[v].run_at <= timer[v].end_time
            /\ ret[v][2] = (timer[v].run_at - timer[v].create_at)
                             + (timer[v].end_time - timer[v].run_at)

C7_Witness ==
    /\ ret["naive"] # << >>
    /\ timer["naive"].run_at > timer["naive"].create_at
    /\ timer["naive"].end_time > timer["naive"].run_at
    /\ ret["naive"][2] > timer["naive"].end_time - timer["naive"].run_at

\* C9: any two pipelines constructed by the benchmark variants, in the same
\* or in different executions, have different dataset names.
C9_DatasetNamesDistinct ==
    \A i, j \in 1..Len(constructed) :
        (/\ i # j
         /\ constructed[i].variant \in Timed
         /\ constructed[j].variant \in Timed) =>
            constructed[i].dataset_name # constructed[j].dataset_name

\* C10: the worker settings are those the process started with until
\* create_optimized_pipeline runs, hence during the whole naive run, and all
\* three are "2" from then on to the end of the process.
C10_WorkerSettingsFrame ==
    /\ cur # "optimized" => env = env0
    /\ (cur = "optimized" /\ pc \in {"wrapper_17", "create"}) => env = env0
    /\ (cur = "optimized" /\ pc \notin {"wrapper_17", "create"}) =>
          \A w \in WorkerVars : env[w] = "2"

C10_Witness ==
    /\ program = "benchmark"
    /\ pc = "exit"
    /\ \A w \in WorkerVars : env0[w] = "4" /\ env[w] = "2"

====
